---- MODULE Spec2Model ----
(***************************************************************************)
(* A model of ROOT::Experimental::RBrowser (gui/browserv7/src/RBrowser.cxx) *)
(* the web-based object browser: its session state, its two canvas lists,   *)
(* the display connection and the dispatch of the text commands received    *)
(* from the client.                                                         *)
(*                                                                          *)
(* A std::string is a sequence of one-character strings, so that prefix     *)
(* tests, at(), substr() and getline() are computed on characters.          *)
(*                                                                          *)
(* Every operation records what it did: the message handled (arg), the      *)
(* messages sent (sent), the calls made to the tree and the interpreter     *)
(* (calls) and how it ended (outcome): "ok", "out_of_range" (the exception   *)
(* left the handler, the state as it was when it was thrown), "undefined"   *)
(* (a read past the end of a vector) or "terminated" (TerminateROOT).       *)
(***************************************************************************)
EXTENDS Integers, Sequences, FiniteSets

(***************************************************************************)
(* Bounds of the model.                                                     *)
(***************************************************************************)
\* Web windows the host hands out in one run: the browser's own window and
\* one per canvas ever created (caps the number of NEWCANVAS commands).
MaxWindows == 4
\* Browser windows opened by Show() and not yet connected or refused.
MaxPending == 2
\* Connections the host accepts in one run (connection ids are never reused).
MaxConnIds == 2

\* A window without a connection limit: as many connections as the host has
\* connection ids.
ConnLimitUnset == MaxConnIds

\* fWebWindow->SetConnLimit(1)
ConnLimit == 1

\* No object (a null TObject pointer); a null smart pointer.
NULL == "NULL"

NullPtr == <<>>

(***************************************************************************)
(* Characters and the literals of the protocol.                            *)
(***************************************************************************)
QUOTE == "\""
BSLASH == "\\"
SPACE == " "

S_QUIT_ROOT == <<"Q","U","I","T","_","R","O","O","T">>
S_BRREQ == <<"B","R","R","E","Q",":">>
S_NEWCANVAS == <<"N","E","W","C","A","N","V","A","S">>
S_DBLCLK == <<"D","B","L","C","L","K",":">>
S_RUNMACRO == <<"R","U","N","M","A","C","R","O",":">>
S_SAVEFILE == <<"S","A","V","E","F","I","L","E",":">>
S_SELECT_CANVAS == <<"S","E","L","E","C","T","_","C","A","N","V","A","S",":">>
S_CLOSE_CANVAS == <<"C","L","O","S","E","_","C","A","N","V","A","S",":">>
S_GETWORKDIR == <<"G","E","T","W","O","R","K","D","I","R",":">>
S_CHDIR == <<"C","H","D","I","R",":">>
S_RELOAD == <<"R","E","L","O","A","D">>

S_BREPL == <<"B","R","E","P","L",":">>
S_CANVS == <<"C","A","N","V","S",":">>
S_FREAD == <<"F","R","E","A","D",":">>
S_SLCTCANV == <<"S","L","C","T","C","A","N","V",":">>
S_INMSG == <<"I","N","M","S","G",":">>
S_webcanv == <<"w","e","b","c","a","n","v">>
S_rcanv == <<"r","c","a","n","v">>
S_root6 == <<"r","o","o","t","6">>
S_root7 == <<"r","o","o","t","7">>
\* "GETWORKDIR: { \"path\": \""  and  "\"}"
S_WORKDIR_HEAD == <<"G","E","T","W","O","R","K","D","I","R",":"," ","{"," ",
                    QUOTE,"p","a","t","h",QUOTE,":"," ",QUOTE>>
S_WORKDIR_TAIL == <<QUOTE,"}">>

(***************************************************************************)
(* std::string operations.                                                  *)
(***************************************************************************)
\* A comparison of the characters arg has, a shorter arg matching lit.
ComparePrefixLoose(arg, lit) ==
    \A i \in 1..Len(lit) : i <= Len(arg) => arg[i] = lit[i]

\* arg.compare(0, n, lit) == 0 with n the length of lit: the first n
\* characters of arg (fewer when arg is shorter) equal lit.
ComparePrefix(arg, lit) ==
    /\ Len(arg) >= Len(lit)
    /\ SubSeq(arg, 1, Len(lit)) = lit

\* arg.substr(pos), pos counted from 0 and pos <= size.
Substr(arg, pos) == SubSeq(arg, pos + 1, Len(arg))

\* Position (from 1) of the first occurrence of character c in s, 0 if none.
RECURSIVE FindFrom(_, _, _)
FindFrom(s, c, i) ==
    IF i > Len(s) THEN 0
    ELSE IF s[i] = c THEN i
    ELSE FindFrom(s, c, i + 1)

Find(s, c) == FindFrom(s, c, 1)

\* std::to_string / Form("%d") of a natural number.
DigitChars == <<"0","1","2","3","4","5","6","7","8","9">>

RECURSIVE IntToString(_)
IntToString(n) ==
    IF n < 10 THEN <<DigitChars[n + 1]>>
    ELSE IntToString(n \div 10) \o <<DigitChars[(n % 10) + 1]>>

\* The two getline calls of ProcessSaveFile / ProcessRunCommand: the vector
\* `split` (0, 1 or 2 strings).  getline(path, buffer, ':') fails only when
\* nothing at all is extracted; getline(path, buffer, '\0') fails when the
\* stream is at its end.
NUL == "\\0"

SplitPath(file_path) ==
    LET colon == Find(file_path, ":")
        first == IF colon = 0 THEN file_path ELSE SubSeq(file_path, 1, colon - 1)
        rest  == IF colon = 0 THEN <<>> ELSE Substr(file_path, colon)
        nul   == Find(rest, NUL)
        second == IF nul = 0 THEN rest ELSE SubSeq(rest, 1, nul - 1)
    IN  IF file_path = <<>> THEN <<>>
        ELSE IF rest = <<>> THEN <<first>>
        ELSE <<first, second>>

(***************************************************************************)
(* TBufferJSON: reading and writing the JSON texts of the protocol.         *)
(***************************************************************************)
RECURSIVE SkipWs(_, _)
SkipWs(s, i) ==
    IF i <= Len(s) /\ s[i] = SPACE THEN SkipWs(s, i + 1) ELSE i

JsonFail == [ok |-> FALSE, val |-> <<>>, next |-> 0]

\* The characters of a JSON string whose opening quote precedes position i:
\* up to the closing quote, a backslash taking the next character literally.
RECURSIVE JsonStringBody(_, _, _)
JsonStringBody(s, i, acc) ==
    IF i > Len(s) THEN JsonFail
    ELSE IF s[i] = QUOTE THEN [ok |-> TRUE, val |-> acc, next |-> i + 1]
    ELSE IF s[i] = BSLASH
         THEN IF i + 1 <= Len(s) /\ s[i + 1] \in {QUOTE, BSLASH, "/"}
              THEN JsonStringBody(s, i + 2, Append(acc, s[i + 1]))
              ELSE JsonFail
    ELSE JsonStringBody(s, i + 1, Append(acc, s[i]))

JsonString(s, i) ==
    IF i <= Len(s) /\ s[i] = QUOTE THEN JsonStringBody(s, i + 1, <<>>)
    ELSE JsonFail

\* The elements of a JSON array of strings after its '[' or after a ','.
RECURSIVE JsonElements(_, _, _)
JsonElements(s, i, acc) ==
    LET str == JsonString(s, SkipWs(s, i))
        j   == SkipWs(s, str.next)
    IN  IF ~str.ok \/ j > Len(s) THEN JsonFail
        ELSE IF s[j] = "," THEN JsonElements(s, j + 1, Append(acc, str.val))
        ELSE IF s[j] = "]"
             THEN [ok |-> TRUE, val |-> Append(acc, str.val), next |-> j + 1]
        ELSE JsonFail

\* TBufferJSON::FromJSON<std::vector<std::string>>: the pointer it returns,
\* <<v>> for a vector v, NullPtr when the text is not a JSON array of strings.
FromJSONStrings(s) ==
    LET i == SkipWs(s, 1)
        k == SkipWs(s, i + 1)
        r == IF k <= Len(s) /\ s[k] = "]"
             THEN [ok |-> TRUE, val |-> <<>>, next |-> k + 1]
             ELSE JsonElements(s, i + 1, <<>>)
    IN  IF i > Len(s) \/ s[i] # "[" THEN NullPtr
        ELSE IF r.ok /\ SkipWs(s, r.next) > Len(s) THEN <<r.val>>
        ELSE NullPtr

S_PATHKEY == <<QUOTE,"p","a","t","h",QUOTE>>

\* TBufferJSON::FromJSON<RBrowserRequest>: the pointer it returns, <<r>> for
\* a request r, NullPtr when the text is not a JSON object of the request's
\* shape ({} or {"path":"..."}).
FromJSONRequest(s) ==
    LET i   == SkipWs(s, 1)
        k   == SkipWs(s, i + 1)
        key == JsonString(s, k)
        c   == SkipWs(s, key.next)
        str == JsonString(s, SkipWs(s, c + 1))
        e   == SkipWs(s, str.next)
    IN  IF i > Len(s) \/ s[i] # "{" THEN NullPtr
        ELSE IF k <= Len(s) /\ s[k] = "}" /\ SkipWs(s, k + 1) > Len(s)
             THEN <<[path |-> <<>>, first |-> 0, number |-> 0]>>
        ELSE IF /\ key.ok /\ key.val = <<"p","a","t","h">>
                /\ c <= Len(s) /\ s[c] = ":"
                /\ str.ok
                /\ e <= Len(s) /\ s[e] = "}" /\ SkipWs(s, e + 1) > Len(s)
             THEN <<[path |-> str.val, first |-> 0, number |-> 0]>>
        ELSE NullPtr

\* A string written as JSON: quoted, quote and backslash escaped.
RECURSIVE JsonEscape(_)
JsonEscape(s) ==
    IF s = <<>> THEN <<>>
    ELSE (IF Head(s) \in {QUOTE, BSLASH} THEN <<BSLASH, Head(s)>> ELSE <<Head(s)>>)
         \o JsonEscape(Tail(s))

ToJSONString(s) == <<QUOTE>> \o JsonEscape(s) \o <<QUOTE>>

\* Elements written by W, joined with ',' (kNoSpaces).
RECURSIVE JoinStrings(_)
JoinStrings(v) ==
    IF v = <<>> THEN <<>>
    ELSE IF Len(v) = 1 THEN ToJSONString(v[1])
    ELSE ToJSONString(v[1]) \o <<",">> \o JoinStrings(Tail(v))

\* TBufferJSON::ToJSON of a std::vector<std::string>.
ToJSONStrings(v) == <<"[">> \o JoinStrings(v) \o <<"]">>

RECURSIVE JoinVectors(_)
JoinVectors(vv) ==
    IF vv = <<>> THEN <<>>
    ELSE IF Len(vv) = 1 THEN ToJSONStrings(vv[1])
    ELSE ToJSONStrings(vv[1]) \o <<",">> \o JoinVectors(Tail(vv))

\* TBufferJSON::ToJSON of a std::vector<std::vector<std::string>>.
ToJSONVectors(vv) == <<"[">> \o JoinVectors(vv) \o <<"]">>

(***************************************************************************)
(* The browsable tree (RBrowsable), an external collaborator: GetElement    *)
(* gives the element of a path or none; an element may have text content    *)
(* and may give an object to draw.                                          *)
(***************************************************************************)
NoElement == [exists |-> FALSE, hasText |-> FALSE, text |-> <<>>, obj |-> NULL]

Element(hasText, text, obj) ==
    [exists |-> TRUE, hasText |-> hasText, text |-> text, obj |-> obj]

\* The objects of the tree; h1 is a TH1 (attached to a directory), gr is not.
IsTH1(obj) == obj = "h1"

GetElement(path) ==
    CASE path = <<"/","t">> -> Element(TRUE, <<"h","i">>, NULL)
      [] path = <<"/","[">> -> Element(TRUE, <<"x",":","y">>, NULL)
      [] path = <<"/","e">> -> Element(TRUE, <<>>, NULL)
      [] path = <<"/","b">> -> Element(TRUE, <<"b">>, "gr")
      [] path = <<"/","h">> -> Element(FALSE, <<>>, "h1")
      [] path = <<"/","g">> -> Element(FALSE, <<>>, "gr")
      [] path = <<"/","d">> -> Element(FALSE, <<>>, NULL)
      [] OTHER -> NoElement

\* RBrowsable::ProcessRequest and the JSON of its reply: the listing of the
\* requested path.
ProcessRequestJSON(request) ==
    <<"{">> \o S_PATHKEY \o <<":">> \o ToJSONString(request.path) \o <<"}">>

(***************************************************************************)
(* The state of the browser and of its host.                                *)
(***************************************************************************)
VARIABLES
    fUseRCanvas,        \* session mode: RCanvas (TRUE) or TCanvas (FALSE)
    fCanvases,          \* std::vector<std::unique_ptr<TCanvas>>
    fRCanvases,         \* std::vector<std::shared_ptr<RCanvas>>
    fActiveCanvas,      \* name of the active canvas, possibly empty
    fWorkingDirectory,  \* the working directory
    fBrowsable,         \* top item of the browsable tree
    fConnId,            \* id of the connection that connected last
    conns,              \* fWebWindow: ids of the live connections, in order
    pending,            \* browser windows shown, not yet connected
    connCnt,            \* connection ids handed out by the host
    winCnt,             \* web windows created by the host
    files,              \* local files: name -> content
    alive,              \* the process runs
    op,                 \* the operation performed last
    arg,                \* the message it handled
    sent,               \* what it sent with fWebWindow->Send, in order
    calls,              \* ProcessDblClick / ExecuteMacro calls it made
    outcome,            \* how it ended
    lastChdir,          \* history: <<p>> for the last CHDIR:p received
    closed              \* history: the canvases the client closed (name, window)

vars == <<fUseRCanvas, fCanvases, fRCanvases, fActiveCanvas, fWorkingDirectory,
          fBrowsable, fConnId, conns, pending, connCnt, winCnt, files, alive,
          op, arg, sent, calls, outcome, lastChdir, closed>>

\* What the message handlers read and change.
St == [canv |-> fCanvases, rcanv |-> fRCanvases, active |-> fActiveCanvas,
       wd |-> fWorkingDirectory, top |-> fBrowsable, files |-> files,
       win |-> winCnt, alive |-> alive]

Done(st, out, made, how) ==
    [st |-> st, sent |-> out, calls |-> made, outcome |-> how]

Msg(connid, text) == [conn |-> connid, text |-> text]

Op(name, force) == [name |-> name, force |-> force]

\* gSystem->WorkingDirectory() when the browser is constructed.
InitialDir == <<"/","w">>

\* What a read past the end of the vector `split` may give.
Garbage == {<<>>, <<"?">>}

(***************************************************************************)
(* Canvases.                                                                *)
(***************************************************************************)
Canvas(name, win) == [name |-> name, win |-> win, prims |-> <<>>]

Primitive(obj, opt, clone, attached) ==
    [obj |-> obj, opt |-> opt, clone |-> clone, attached |-> attached]

\* A lookup that falls back on the first canvas when no name matches.
FindCanvasOrFirst(list, name) ==
    IF \E i \in DOMAIN list : list[i].name = name
    THEN CHOOSE i \in DOMAIN list :
            /\ list[i].name = name
            /\ \A j \in 1..(i - 1) : list[j].name # name
    ELSE IF list # <<>> THEN 1 ELSE 0

\* std::find_if over a canvas list by name: the first position, 0 for end().
RECURSIVE FindCanvasFrom(_, _, _)
FindCanvasFrom(list, name, i) ==
    IF i > Len(list) THEN 0
    ELSE IF list[i].name = name THEN i
    ELSE FindCanvasFrom(list, name, i + 1)

FindCanvas(list, name) == FindCanvasFrom(list, name, 1)

\* vector::erase(iter)
Erase(list, i) == SubSeq(list, 1, i - 1) \o SubSeq(list, i + 1, Len(list))

GetActiveCanvas == FindCanvas(fCanvases, fActiveCanvas)

GetActiveRCanvas == FindCanvas(fRCanvases, fActiveCanvas)

\* Address of a canvas's web window relative to the browser's.
WindowUrl(win) == <<".",".","/","w","i","n">> \o IntToString(win) \o <<"/">>

GetCanvasUrl(canv) == WindowUrl(canv.win)

GetRCanvasUrl(canv) == WindowUrl(canv.win)

AddCanvas(st) ==
    LET canv_name == S_webcanv \o IntToString(Len(st.canv) + 1)
    IN  [st EXCEPT !.active = canv_name,
                   !.win = st.win + 1,
                   !.canv = Append(st.canv, Canvas(canv_name, st.win + 1))]

AddRCanvas(st) ==
    LET name == S_rcanv \o IntToString(Len(st.rcanv) + 1)
    IN  [st EXCEPT !.active = name,
                   !.win = st.win + 1,
                   !.rcanv = Append(st.rcanv, Canvas(name, st.win + 1))]

CloseCanvas(st, name) ==
    LET iter == FindCanvas(st.canv, name)
    IN  [st EXCEPT !.canv = IF iter # 0 THEN Erase(st.canv, iter) ELSE st.canv,
                   !.active = IF st.active = name THEN <<>> ELSE st.active]

\* The (kind, url, name) triples of SendInitMsg and its message.
RECURSIVE CanvasTriples(_, _)
CanvasTriples(list, kind) ==
    IF list = <<>> THEN <<>>
    ELSE <<<<kind, WindowUrl(Head(list).win), Head(list).name>>>>
         \o CanvasTriples(Tail(list), kind)

InitMsg ==
    S_INMSG \o ToJSONVectors(CanvasTriples(fCanvases, S_root6)
                             \o CanvasTriples(fRCanvases, S_root7))

\* GetCurrentWorkingDirectory reporting the directory the process started in.
GetStartDirectory(wd) == S_WORKDIR_HEAD \o InitialDir \o S_WORKDIR_TAIL

GetCurrentWorkingDirectory(wd) == S_WORKDIR_HEAD \o wd \o S_WORKDIR_TAIL

(***************************************************************************)
(* The handlers of the commands.                                            *)
(***************************************************************************)
ProcessBrowserRequest(msg) ==
    LET request == IF msg = <<>>
                   THEN <<[path |-> <<"/">>, first |-> 0, number |-> 100]>>
                   ELSE FromJSONRequest(msg)
    IN  IF request = NullPtr THEN <<>>
        ELSE S_BREPL \o ProcessRequestJSON(request[1])

\* std::ofstream ostrm(name); ostrm << content: a file of an empty name
\* cannot be opened and nothing is written.
WriteFile(fs, name, content) ==
    IF name = <<>> THEN fs
    ELSE [f \in (DOMAIN fs) \cup {name} |-> IF f = name THEN content ELSE fs[f]]

\* ProcessSaveFile: the outcomes.  split[0] and split[1] are read unchecked:
\* past the end of the vector the behaviour is undefined, the process
\* crashes or goes on with whatever the read gave.  The file split[0] is
\* opened (and emptied) before split[1] is read.
ProcessSaveFile(st, file_path) ==
    LET split == SplitPath(file_path)
    IN  IF Len(split) = 2
        THEN {Done([st EXCEPT !.files = WriteFile(st.files, split[1], split[2])],
                   <<>>, <<>>, "ok")}
        ELSE IF Len(split) = 1
        THEN {Done([st EXCEPT !.files = WriteFile(st.files, split[1], <<>>),
                              !.alive = FALSE], <<>>, <<>>, "undefined")}
             \cup
             { Done([st EXCEPT !.files = WriteFile(st.files, split[1], g)],
                    <<>>, <<>>, "undefined") : g \in Garbage }
        ELSE {Done([st EXCEPT !.alive = FALSE], <<>>, <<>>, "undefined")}
             \cup
             { Done([st EXCEPT !.files = WriteFile(st.files, n, g)],
                    <<>>, <<>>, "undefined") : n \in Garbage, g \in Garbage }

\* ProcessRunCommand with the macro's path taken for the working directory.
ProcessRunCommandChdir(st, file_path) ==
    LET split == SplitPath(file_path)
    IN  IF Len(split) >= 1
        THEN {Done([st EXCEPT !.wd = split[1]], <<>>,
                   <<[fn |-> "ExecuteMacro", path |-> split[1], opts |-> <<>>]>>,
                   "ok")}
        ELSE {Done([st EXCEPT !.alive = FALSE], <<>>, <<>>, "undefined")}

\* ProcessRunCommand: gInterpreter->ExecuteMacro(split[0]).
ProcessRunCommand(st, file_path) ==
    LET split == SplitPath(file_path)
    IN  IF Len(split) >= 1
        THEN {Done(st, <<>>,
                   <<[fn |-> "ExecuteMacro", path |-> split[1], opts |-> <<>>]>>,
                   "ok")}
        ELSE {Done([st EXCEPT !.alive = FALSE], <<>>, <<>>, "undefined")}
             \cup
             { Done(st, <<>>,
                    <<[fn |-> "ExecuteMacro", path |-> g, opts |-> <<>>]>>,
                    "undefined") : g \in Garbage }

\* ProcessDblClick without its test of the element: a path that resolves to
\* nothing is taken for an element with (empty) text content.
ProcessDblClickNoElemTest(st, item_path, drawingOptions) ==
    LET elem == GetElement(item_path)
    IN  IF ~elem.exists \/ elem.hasText
        THEN [str |-> S_FREAD \o elem.text, st |-> st]
        ELSE [str |-> <<>>, st |-> st]

\* ProcessDblClick drawing without emptying the canvas first: the object is
\* added to what the canvas holds.
ProcessDblClickNoClear(st, item_path, drawingOptions) ==
    LET elem  == GetElement(item_path)
        tobj  == elem.obj
        canv  == FindCanvas(st.canv, st.active)
        rcanv == FindCanvas(st.rcanv, st.active)
    IN  IF ~elem.exists THEN [str |-> <<>>, st |-> st]
        ELSE IF elem.hasText THEN [str |-> S_FREAD \o elem.text, st |-> st]
        ELSE IF tobj = NULL THEN [str |-> <<>>, st |-> st]
        ELSE IF canv # 0
             THEN [str |-> S_SLCTCANV \o st.canv[canv].name,
                   st  |-> [st EXCEPT !.canv[canv].prims =
                               Append(@, Primitive(tobj, drawingOptions, FALSE, IsTH1(tobj)))]]
        ELSE IF rcanv # 0
             THEN [str |-> S_SLCTCANV \o st.rcanv[rcanv].name,
                   st  |-> [st EXCEPT !.rcanv[rcanv].prims =
                               Append(@, Primitive(tobj, drawingOptions, TRUE, FALSE))]]
        ELSE [str |-> <<>>, st |-> st]

\* ProcessDblClick: the reply and the canvas lists after it.
ProcessDblClick(st, item_path, drawingOptions) ==
    LET elem  == GetElement(item_path)
        tobj  == elem.obj
        canv  == FindCanvas(st.canv, st.active)
        rcanv == FindCanvas(st.rcanv, st.active)
    IN  IF ~elem.exists THEN [str |-> <<>>, st |-> st]
        ELSE IF elem.hasText THEN [str |-> S_FREAD \o elem.text, st |-> st]
        ELSE IF tobj = NULL THEN [str |-> <<>>, st |-> st]
        ELSE IF canv # 0
             THEN [str |-> S_SLCTCANV \o st.canv[canv].name,
                   st  |-> [st EXCEPT !.canv[canv].prims =
                               <<Primitive(tobj, drawingOptions, FALSE, IsTH1(tobj))>>]]
        ELSE IF rcanv # 0
             THEN [str |-> S_SLCTCANV \o st.rcanv[rcanv].name,
                   st  |-> [st EXCEPT !.rcanv[rcanv].prims =
                               <<Primitive(tobj, drawingOptions, TRUE, FALSE)>>]]
        ELSE [str |-> <<>>, st |-> st]

DblClickCall(item_path, drawingOptions) ==
    <<[fn |-> "ProcessDblClick", path |-> item_path, opts |-> drawingOptions]>>

\* The NEWCANVAS branch creating a legacy canvas whatever the session mode.
NewCanvasLegacyOnly(st, connid) ==
    LET after == AddCanvas(st)
        canv  == after.canv[Len(after.canv)]
        reply == <<S_root6, GetCanvasUrl(canv), canv.name>>
    IN  Done(after, <<Msg(connid, S_CANVS \o ToJSONStrings(reply))>>, <<>>, "ok")

\* The NEWCANVAS branch.
NewCanvas(st, connid) ==
    LET after == IF fUseRCanvas THEN AddRCanvas(st) ELSE AddCanvas(st)
        list  == IF fUseRCanvas THEN after.rcanv ELSE after.canv
        canv  == list[Len(list)]
        reply == IF fUseRCanvas
                 THEN <<S_root7, GetRCanvasUrl(canv), canv.name>>
                 ELSE <<S_root6, GetCanvasUrl(canv), canv.name>>
    IN  Done(after, <<Msg(connid, S_CANVS \o ToJSONStrings(reply))>>, <<>>, "ok")

\* The DBLCLK: branch.  arg.at(8), arr->at(0) and arr->at(1) throw
\* std::out_of_range.
DblClick(st, connid, a) ==
    IF Len(a) <= 8 THEN Done(st, <<>>, <<>>, "out_of_range")
    ELSE IF a[9] # "["
         THEN LET r == ProcessDblClick(st, Substr(a, 7), <<>>)
              IN  Done(r.st, <<Msg(connid, r.str)>>,
                       DblClickCall(Substr(a, 7), <<>>), "ok")
    ELSE LET arr == FromJSONStrings(Substr(a, 7))
         IN  IF arr = NullPtr THEN Done(st, <<>>, <<>>, "ok")
             ELSE IF Len(arr[1]) < 2 THEN Done(st, <<>>, <<>>, "out_of_range")
             ELSE LET r == ProcessDblClick(st, arr[1][1], arr[1][2])
                  IN  Done(r.st,
                           IF Len(r.str) > 0 THEN <<Msg(connid, r.str)>> ELSE <<>>,
                           DblClickCall(arr[1][1], arr[1][2]), "ok")

\* WebWindowCallback(connid, arg): the outcomes of handling one message.
WebWindowCallback(st, connid, a) ==
    IF a = S_QUIT_ROOT
    THEN {Done([st EXCEPT !.alive = FALSE], <<>>, <<>>, "terminated")}
    ELSE IF ComparePrefix(a, S_BRREQ)
    THEN LET json == ProcessBrowserRequest(Substr(a, 6))
         IN  {Done(st, IF Len(json) > 0 THEN <<Msg(connid, json)>> ELSE <<>>,
                   <<>>, "ok")}
    ELSE IF a = S_NEWCANVAS
    THEN {NewCanvas(st, connid)}
    ELSE IF ComparePrefix(a, S_DBLCLK)
    THEN {DblClick(st, connid, a)}
    ELSE IF ComparePrefix(a, S_RUNMACRO)
    THEN ProcessRunCommand(st, Substr(a, 9))
    ELSE IF ComparePrefix(a, S_SAVEFILE)
    THEN ProcessSaveFile(st, Substr(a, 9))
    ELSE IF ComparePrefix(a, S_SELECT_CANVAS)
    THEN {Done([st EXCEPT !.active = Substr(a, 14)], <<>>, <<>>, "ok")}
    ELSE IF ComparePrefix(a, S_CLOSE_CANVAS)
    THEN {Done(CloseCanvas(st, Substr(a, 13)), <<>>, <<>>, "ok")}
    ELSE IF ComparePrefix(a, S_GETWORKDIR)
    THEN {Done(st, <<Msg(connid, GetCurrentWorkingDirectory(st.wd))>>, <<>>, "ok")}
    ELSE IF ComparePrefix(a, S_CHDIR)
    THEN LET after == [st EXCEPT !.wd = Substr(a, 6), !.top = Substr(a, 6)]
         IN  {Done(after, <<Msg(connid, GetCurrentWorkingDirectory(after.wd))>>,
                   <<>>, "ok")}
    ELSE {Done(st, <<>>, <<>>, "ok")}

\* The state after a handler's outcome r.
Apply(r) ==
    /\ fCanvases' = r.st.canv
    /\ fRCanvases' = r.st.rcanv
    /\ fActiveCanvas' = r.st.active
    /\ fWorkingDirectory' = r.st.wd
    /\ fBrowsable' = r.st.top
    /\ files' = r.st.files
    /\ winCnt' = r.st.win
    /\ alive' = r.st.alive
    /\ sent' = r.sent
    /\ calls' = r.calls
    /\ outcome' = r.outcome

(***************************************************************************)
(* The messages the client sends.                                           *)
(***************************************************************************)
Range(f) == {f[i] : i \in DOMAIN f}

\* Names of canvases, of either kind, that can exist within the bounds.
CanvasNames ==
    {S_webcanv \o IntToString(n) : n \in 1..(MaxWindows - 1)}
    \cup {S_rcanv \o IntToString(n) : n \in 1..(MaxWindows - 1)}

NamePayloads == CanvasNames \cup {<<>>}

TreePaths == {<<"/","t">>, <<"/","[">>, <<"/","e">>, <<"/","b">>,
              <<"/","h">>, <<"/","g">>, <<"/","d">>, <<"/","n">>}

DblClickPayloads ==
    {<<>>, <<"/">>, <<"[">>, <<"[","[">>, <<"x","[">>, <<SPACE,"[">>,
     <<SPACE,"[",QUOTE>>}
    \cup TreePaths
    \cup {ToJSONStrings(<<p, <<"o">>>>) : p \in {<<"/","h">>, <<"/","n">>, <<"/","t">>}}
    \cup {<<SPACE>> \o ToJSONStrings(<<p, <<"o">>>>) : p \in TreePaths}
    \cup {<<SPACE>> \o ToJSONStrings(v) :
             v \in {<<>>, << <<"/","h">> >>, << <<"/","h">>, <<"o">>, <<"x">> >>}}

SaveFilePayloads ==
    {<<>>, <<"f">>, <<"f",":">>, <<"f",":","h">>, <<"f",":","h",":","i">>,
     <<":","h">>, <<"f",":","h",NUL,"i">>}

RunMacroPayloads == {<<>>, <<"m">>, <<"m",":","x">>, <<":">>}

ChDirPayloads == {<<>>, <<"/","v">>, <<"a",QUOTE>>}

BrowserRequestPayloads ==
    {<<>>, <<"{","}">>, <<"{">>, <<"x">>, <<"[","]">>,
     <<"{">> \o S_PATHKEY \o <<":">> \o ToJSONString(<<"/","d">>) \o <<"}">>}

GetWorkDirPayloads == {<<>>, <<"x">>}

OtherMessages ==
    {<<>>, <<"X">>, S_RELOAD, S_NEWCANVAS \o <<"x">>, S_QUIT_ROOT \o <<"x">>,
     <<"D","B","L","C","L","K">>, <<"C","H","D","I","R">>}

\* Double clicks on the objects of the tree, in both forms of the message.
DrawPayloads ==
    {<<"/","g">>, <<"/","d">>,
     <<SPACE>> \o ToJSONStrings(<< <<"/","h">>, <<"o">> >>)}

\* A few messages of every command.
SampleMessages ==
    {S_QUIT_ROOT, S_NEWCANVAS, <<"X">>,
     S_BRREQ, S_BRREQ \o <<"{">>,
     S_DBLCLK \o <<"/","h">>, S_DBLCLK \o <<"/","t">>,
     S_RUNMACRO \o <<"m">>,
     S_SAVEFILE \o <<"f",":","h">>,
     S_SELECT_CANVAS \o S_webcanv \o <<"1">>,
     S_SELECT_CANVAS \o S_rcanv \o <<"1">>,
     S_CLOSE_CANVAS \o S_webcanv \o <<"1">>,
     S_CLOSE_CANVAS \o S_rcanv \o <<"2">>,
     S_GETWORKDIR,
     S_CHDIR \o <<"/","v">>, S_CHDIR \o <<"a",QUOTE>>, S_CHDIR}

(***************************************************************************)
(* The operations.                                                          *)
(***************************************************************************)
\* The canvas that CLOSE_CANVAS:name names: the first of that name, of the
\* legacy list if it has one.
Named(st, name) ==
    LET i == FindCanvas(st.canv, name)
        j == FindCanvas(st.rcanv, name)
    IN  IF i # 0 THEN {[name |-> name, win |-> st.canv[i].win]}
        ELSE IF j # 0 THEN {[name |-> name, win |-> st.rcanv[j].win]}
        ELSE {}

\* The host delivers message a of a live connection to WebWindowCallback.
Recv(a) ==
    /\ \E connid \in Range(conns) :
          \E r \in WebWindowCallback(St, connid, a) : Apply(r)
    /\ op' = Op("WebWindowCallback", FALSE)
    /\ arg' = a
    /\ lastChdir' = IF ComparePrefix(a, S_CHDIR) THEN <<Substr(a, 6)>> ELSE lastChdir
    /\ closed' = IF ComparePrefix(a, S_CLOSE_CANVAS)
                 THEN closed \cup Named(St, Substr(a, 13))
                 ELSE closed
    /\ UNCHANGED <<fUseRCanvas, fConnId, conns, pending, connCnt>>

RecvQuit ==
    /\ alive
    /\ Recv(S_QUIT_ROOT)

RecvBrowserRequest ==
    /\ alive
    /\ \E p \in BrowserRequestPayloads : Recv(S_BRREQ \o p)

RecvNewCanvas ==
    /\ alive
    /\ winCnt < MaxWindows
    /\ Recv(S_NEWCANVAS)

RecvDblClick ==
    /\ alive
    /\ \E p \in DblClickPayloads : Recv(S_DBLCLK \o p)

RecvRunMacro ==
    /\ alive
    /\ \E p \in RunMacroPayloads : Recv(S_RUNMACRO \o p)

RecvSaveFile ==
    /\ alive
    /\ \E p \in SaveFilePayloads : Recv(S_SAVEFILE \o p)

RecvSelectCanvas ==
    /\ alive
    /\ \E p \in NamePayloads : Recv(S_SELECT_CANVAS \o p)

RecvCloseCanvas ==
    /\ alive
    /\ \E p \in NamePayloads : Recv(S_CLOSE_CANVAS \o p)

RecvGetWorkDir ==
    /\ alive
    /\ \E p \in GetWorkDirPayloads : Recv(S_GETWORKDIR \o p)

RecvChDir ==
    /\ alive
    /\ \E p \in ChDirPayloads : Recv(S_CHDIR \o p)

RecvOther ==
    /\ alive
    /\ \E a \in OtherMessages : Recv(a)

RecvDraw ==
    /\ alive
    /\ \E p \in DrawPayloads : Recv(S_DBLCLK \o p)

RecvSample ==
    /\ alive
    /\ \E a \in SampleMessages :
          /\ (a = S_NEWCANVAS) => (winCnt < MaxWindows)
          /\ Recv(a)

\* Show's loop over the connections from the n-th on, each handed "RELOAD".
RECURSIVE ReloadFrom(_, _)
ReloadFrom(r, n) ==
    IF n > Len(conns) THEN {r}
    ELSE UNION { ReloadFrom(Done(q.st, r.sent \o q.sent, r.calls \o q.calls,
                                 q.outcome), n + 1) :
                 q \in WebWindowCallback(r.st, conns[n], S_RELOAD) }

\* RBrowser::Show(args, always_start_new_browser)
Show(always_start_new_browser) ==
    LET number == Len(conns)
    IN  /\ alive
        /\ IF (number = 0) \/ always_start_new_browser
           THEN /\ pending < MaxPending
                /\ pending' = pending + 1
                /\ Apply(Done(St, <<>>, <<>>, "ok"))
                /\ arg' = <<>>
           ELSE /\ \E r \in ReloadFrom(Done(St, <<>>, <<>>, "ok"), 1) : Apply(r)
                /\ arg' = S_RELOAD
                /\ pending' = pending
        /\ op' = Op("Show", always_start_new_browser)
        /\ UNCHANGED <<fUseRCanvas, fConnId, conns, connCnt, lastChdir, closed>>

ShowWindow == \E force \in BOOLEAN : Show(force)

\* RBrowser::Hide
Hide ==
    /\ alive
    /\ conns' = <<>>
    /\ Apply(Done(St, <<>>, <<>>, "ok"))
    /\ op' = Op("Hide", FALSE)
    /\ arg' = <<>>
    /\ UNCHANGED <<fUseRCanvas, fConnId, pending, connCnt, lastChdir, closed>>

\* A shown window connects: with the connection limit not reached the host
\* accepts it and invokes the connect callback, fConnId = connid;
\* SendInitMsg(connid).
Connect ==
    /\ alive
    /\ pending > 0
    /\ Len(conns) < ConnLimit
    /\ connCnt < MaxConnIds
    /\ pending' = pending - 1
    /\ connCnt' = connCnt + 1
    /\ conns' = Append(conns, connCnt + 1)
    /\ fConnId' = connCnt + 1
    /\ Apply(Done(St, <<Msg(connCnt + 1, InitMsg)>>, <<>>, "ok"))
    /\ op' = Op("Connect", FALSE)
    /\ arg' = <<>>
    /\ UNCHANGED <<fUseRCanvas, lastChdir, closed>>

\* With the connection limit reached the host refuses the window.
Refuse ==
    /\ alive
    /\ pending > 0
    /\ Len(conns) >= ConnLimit
    /\ pending' = pending - 1
    /\ Apply(Done(St, <<>>, <<>>, "ok"))
    /\ op' = Op("Refuse", FALSE)
    /\ arg' = <<>>
    /\ UNCHANGED <<fUseRCanvas, fConnId, conns, connCnt, lastChdir, closed>>

\* The state the constructor leaves: the browser window shown (no connection
\* yet) and the first canvas added.
Init ==
    /\ fUseRCanvas \in BOOLEAN
    /\ LET st0 == [canv |-> <<>>, rcanv |-> <<>>, active |-> <<>>,
                   wd |-> InitialDir, top |-> InitialDir,
                   files |-> <<>>, win |-> 1, alive |-> TRUE]
           st1 == IF fUseRCanvas THEN AddRCanvas(st0) ELSE AddCanvas(st0)
       IN  /\ fCanvases = st1.canv
           /\ fRCanvases = st1.rcanv
           /\ fActiveCanvas = st1.active
           /\ fWorkingDirectory = st1.wd
           /\ fBrowsable = st1.top
           /\ files = st1.files
           /\ winCnt = st1.win
           /\ alive = st1.alive
    /\ fConnId = 0
    /\ conns = <<>>
    /\ pending = 1
    /\ connCnt = 0
    /\ op = Op("RBrowser", FALSE)
    /\ arg = <<>>
    /\ sent = <<>>
    /\ calls = <<>>
    /\ outcome = "ok"
    /\ lastChdir = <<>>
    /\ closed = {}

\* The canvas and connection life cycle.
Next ==
    \/ RecvNewCanvas
    \/ RecvSelectCanvas
    \/ RecvCloseCanvas
    \/ ShowWindow
    \/ Hide
    \/ Connect
    \/ Refuse

Spec == Init /\ [][Next]_vars

\* The dispatch of the commands that leave the canvas lists alone.
NextMsg ==
    \/ Connect
    \/ RecvQuit
    \/ RecvBrowserRequest
    \/ RecvDblClick
    \/ RecvRunMacro
    \/ RecvSaveFile
    \/ RecvGetWorkDir
    \/ RecvChDir
    \/ RecvOther

SpecMsg == Init /\ [][NextMsg]_vars

\* Every command, each with a few of its messages.
NextAll ==
    \/ Connect
    \/ RecvSample

SpecAll == Init /\ [][NextAll]_vars

\* Drawing on the canvases: canvases created, selected and closed, objects
\* double-clicked.
NextDraw ==
    \/ Connect
    \/ RecvNewCanvas
    \/ RecvSelectCanvas
    \/ RecvCloseCanvas
    \/ RecvDraw

SpecDraw == Init /\ [][NextDraw]_vars

(***************************************************************************)
(* Properties.                                                              *)
(***************************************************************************)
\* The step handles message a (primed: the state after the step).
Handled(prefix) ==
    /\ op.name = "WebWindowCallback"
    /\ ComparePrefix(arg, prefix)

HasName(list, name) == \E i \in DOMAIN list : list[i].name = name

\* list minus exactly one entry, one that carries the name.
ErasedOne(list, after, name) ==
    \E i \in DOMAIN list : list[i].name = name /\ after = Erase(list, i)

\* C1: CLOSE_CANVAS:<name> for a name carried by an existing canvas, of
\* either list, removes exactly that one entry from the registry, every
\* other canvas staying, and the active name becomes empty exactly when it
\* was equal to <name>.
C1_CloseRemovesThatCanvas ==
    [][ LET name == Substr(arg', 13)
        IN  (/\ Handled(S_CLOSE_CANVAS)'
             /\ HasName(fCanvases, name) \/ HasName(fRCanvases, name))
            => /\ \/ ErasedOne(fCanvases, fCanvases', name)
                     /\ fRCanvases' = fRCanvases
                  \/ ErasedOne(fRCanvases, fRCanvases', name)
                     /\ fCanvases' = fCanvases
               /\ fActiveCanvas' = IF fActiveCanvas = name THEN <<>>
                                   ELSE fActiveCanvas ]_vars

\* The canvases, of both lists, whose name equals the active-canvas name.
ActiveMatches ==
    {<<"root6", i>> : i \in {j \in DOMAIN fCanvases :
                               fCanvases[j].name = fActiveCanvas}}
    \cup
    {<<"root7", i>> : i \in {j \in DOMAIN fRCanvases :
                               fRCanvases[j].name = fActiveCanvas}}

\* C2: at most one canvas across the two registries has a name equal to the
\* active-canvas name, and when no canvas has it the active-canvas lookup
\* yields no canvas.
C2_AtMostOneActive ==
    /\ Cardinality(ActiveMatches) <= 1
    /\ (ActiveMatches = {}) => (GetActiveCanvas = 0 /\ GetActiveRCanvas = 0)

\* C3: Show with a connection present and no new window forced opens no
\* second connection or window and sends every existing connection the
\* initialization message a first connection receives.
C3_ShowResendsInit ==
    [][ (op'.name = "Show" /\ ~op'.force /\ Len(conns) > 0)
        => /\ conns' = conns
           /\ pending' = pending
           /\ \A c \in Range(conns) : Msg(c, InitMsg') \in Range(sent') ]_vars

\* The first character of s that is not a blank, "" when there is none.
FirstNonBlank(s) ==
    LET i == SkipWs(s, 1) IN IF i <= Len(s) THEN s[i] ELSE ""

\* C4: DBLCLK:[path,opts], the payload a JSON array of two strings, resolves
\* the first element with the second as drawing options; DBLCLK:<path>, the
\* payload no JSON array, resolves the whole payload with empty options.
C4_DblClickForms ==
    Handled(S_DBLCLK) =>
        LET payload == Substr(arg, 7)
            arr     == FromJSONStrings(payload)
        IN  /\ (arr # NullPtr /\ Len(arr[1]) = 2)
                  => calls = DblClickCall(arr[1][1], arr[1][2])
            /\ (FirstNonBlank(payload) # "[")
                  => calls = DblClickCall(payload, <<>>)

\* A DBLCLK payload that opens a JSON array and is not an array of at least
\* two strings; a BRREQ payload that is no request.
MalformedArray(payload) ==
    /\ FirstNonBlank(payload) = "["
    /\ LET arr == FromJSONStrings(payload)
       IN  arr = NullPtr \/ Len(arr[1]) < 2

MalformedRequest(payload) ==
    /\ payload # <<>>
    /\ FromJSONRequest(payload) = NullPtr

\* No message with a text was sent (an empty text is no reply).
NoReply == \A i \in DOMAIN sent : sent[i].text = <<>>

\* C5: a BRREQ: or DBLCLK: message with a malformed JSON payload gets no
\* reply, its handling ends normally, and the working directory, the active
\* canvas name and both canvas lists stay as they were.
C5_MalformedJsonDropped ==
    [][ (\/ Handled(S_BRREQ)' /\ MalformedRequest(Substr(arg', 6))
         \/ Handled(S_DBLCLK)' /\ MalformedArray(Substr(arg', 7)))
        => /\ NoReply'
           /\ outcome' = "ok"
           /\ UNCHANGED <<fWorkingDirectory, fActiveCanvas, fCanvases,
                          fRCanvases>> ]_vars

\* C6: the handling of every message other than QUIT_ROOT ends without an
\* out-of-range access, an exception or the end of the process.
C6_NothingFatal ==
    (op.name = "WebWindowCallback" /\ arg # S_QUIT_ROOT)
        => (outcome = "ok" /\ alive)

\* C7: a DBLCLK whose path the tree resolves to no element, in the plain and
\* in the array form, sends no FREAD: and no SLCTCANV: message (at most one
\* message, of empty text) and changes no canvas and no session state.
C7_UnresolvedDblClickEmpty ==
    [][ (/\ Handled(S_DBLCLK)'
         /\ \/ calls' # <<>> /\ ~GetElement(calls'[1].path).exists
            \/ /\ FromJSONStrings(Substr(arg', 7)) = NullPtr
               /\ ~GetElement(Substr(arg', 7)).exists)
        => /\ NoReply'
           /\ Len(sent') <= 1
           /\ UNCHANGED <<fCanvases, fRCanvases, fActiveCanvas,
                          fWorkingDirectory, fBrowsable, files, fConnId,
                          conns, winCnt>> ]_vars

\* A DBLCLK in the array form resolved its path to no element and sent
\* nothing.
C7_Witness ==
    /\ Handled(S_DBLCLK)
    /\ Len(arg) >= 9
    /\ arg[9] = "["
    /\ calls = DblClickCall(<<"/","n">>, <<"o">>)
    /\ ~GetElement(calls[1].path).exists
    /\ sent = <<>>
    /\ outcome = "ok"

\* C8: for every path the tree resolves to an element with text content, a
\* DBLCLK on that path sends exactly one reply, FREAD: followed by the text
\* as it is, and changes no canvas.
C8_TextDblClickReplies ==
    [][ \A p \in TreePaths :
          (/\ GetElement(p).hasText
           /\ op'.name = "WebWindowCallback"
           /\ arg' \in {S_DBLCLK \o p,
                        S_DBLCLK \o <<SPACE>> \o ToJSONStrings(<<p, <<"o">>>>)})
          => /\ \E c \in Range(conns) :
                   sent' = <<Msg(c, S_FREAD \o GetElement(p).text)>>
             /\ UNCHANGED <<fCanvases, fRCanvases>> ]_vars

\* C9: after SAVEFILE:<path>:<content> the file <path> (the payload before
\* its first ':') holds exactly <content> (all of the payload after that
\* ':'), and no reply is sent.
C9_SaveFileWritesContent ==
    LET payload == Substr(arg, 9)
        colon   == Find(payload, ":")
        path    == SubSeq(payload, 1, colon - 1)
        content == SubSeq(payload, colon + 1, Len(payload))
    IN  (Handled(S_SAVEFILE) /\ colon > 1)
        => /\ path \in DOMAIN files
           /\ files[path] = content
           /\ sent = <<>>

\* C10: a GETWORKDIR: request that follows CHDIR:<p>, with any commands but
\* CHDIR in between, is answered with the GETWORKDIR: message whose path
\* field is <p>, and CHDIR:<p> itself is answered with that message.
C10_WorkDirFollowsChDir ==
    /\ (Handled(S_GETWORKDIR) /\ lastChdir # <<>>)
          => \E c \in Range(conns) :
                sent = <<Msg(c, S_WORKDIR_HEAD \o lastChdir[1] \o S_WORKDIR_TAIL)>>
    /\ Handled(S_CHDIR)
          => \E c \in Range(conns) :
                sent = <<Msg(c, S_WORKDIR_HEAD \o Substr(arg, 6) \o S_WORKDIR_TAIL)>>

\* GETWORKDIR: was answered after a CHDIR:/v that other commands (a file
\* saved, a canvas added) followed or preceded.
C10_Witness ==
    /\ Handled(S_GETWORKDIR)
    /\ lastChdir = << <<"/","v">> >>
    /\ \E c \in Range(conns) :
          sent = <<Msg(c, S_WORKDIR_HEAD \o <<"/","v">> \o S_WORKDIR_TAIL)>>
    /\ files # <<>>
    /\ Len(fCanvases) + Len(fRCanvases) >= 2

\* The text a begins with the literal lit.
StartsWith(a, lit) == \E k \in 0..Len(a) : SubSeq(a, 1, k) = lit

\* The message is none of the commands of the protocol.
Unrecognized(a) ==
    /\ a # S_QUIT_ROOT
    /\ a # S_NEWCANVAS
    /\ \A lit \in {S_BRREQ, S_DBLCLK, S_RUNMACRO, S_SAVEFILE, S_SELECT_CANVAS,
                   S_CLOSE_CANVAS, S_GETWORKDIR, S_CHDIR} : ~StartsWith(a, lit)

\* C11: a received message that is none of the recognized commands sends
\* nothing, ends normally and leaves the working directory, the active-canvas
\* name and both canvas lists as they were.
C11_UnknownIgnored ==
    [][ (op'.name = "WebWindowCallback" /\ Unrecognized(arg'))
        => /\ sent' = <<>>
           /\ outcome' = "ok"
           /\ UNCHANGED <<fWorkingDirectory, fActiveCanvas, fCanvases,
                          fRCanvases>> ]_vars

\* A command name without its ':' was received after a CHDIR and ignored.
C11_Witness ==
    /\ op.name = "WebWindowCallback"
    /\ arg = <<"C","H","D","I","R">>
    /\ Unrecognized(arg)
    /\ sent = <<>>
    /\ fWorkingDirectory = <<"/","v">>

\* The (kind, url, name) triples of the canvases that are open: created and
\* not closed by the client since.
OpenTriples ==
    LET gone == {c.win : c \in closed}
    IN  {<<S_root6, WindowUrl(fCanvases[i].win), fCanvases[i].name>> :
            i \in {j \in DOMAIN fCanvases : fCanvases[j].win \notin gone}}
        \cup
        {<<S_root7, WindowUrl(fRCanvases[i].win), fRCanvases[i].name>> :
            i \in {j \in DOMAIN fRCanvases : fRCanvases[j].win \notin gone}}

\* The listings of a set of triples, one entry each, in any order.
Listings(triples) ==
    LET n == Cardinality(triples)
    IN  {t \in [1..n -> triples] : \A i, j \in 1..n : t[i] = t[j] => i = j}

\* C12: the initialization message sent to a connection when it is
\* established lists one (kind, url, name) triple for every canvas open at
\* that moment, of either list, and none for a canvas that has been closed.
C12_InitListsOpenCanvases ==
    (op.name = "Connect")
        => \E t \in Listings(OpenTriples) :
              sent = <<Msg(fConnId, S_INMSG \o ToJSONVectors(t))>>

\* No two entries of the list carry the same name.
DistinctNames(list) ==
    \A i, j \in DOMAIN list : list[i].name = list[j].name => i = j

\* C13: in every reachable state the names of the canvases of the legacy
\* list are pairwise distinct, and so are those of the next-generation list.
C13_NamesDistinct ==
    /\ DistinctNames(fCanvases)
    /\ DistinctNames(fRCanvases)

\* C14: at every moment at most one connection to the browser window is
\* live, also when Show is invoked repeatedly and when it is invoked with
\* always_start_new_browser while a connection exists.
C14_OneConnection == Len(conns) <= 1

\* Show was invoked with always_start_new_browser while a connection was
\* live: a new window is open, and the live connection is still the only one.
C14_Witness ==
    /\ op = Op("Show", TRUE)
    /\ pending > 0
    /\ Len(conns) = 1
    /\ fConnId = conns[1]

\* The element has no text content and gives an object to draw.
Drawable(elem) == elem.exists /\ ~elem.hasText /\ elem.obj # NULL

\* The handled DBLCLK had the tree resolve a path to a drawable element.
ResolvedDrawable ==
    /\ Handled(S_DBLCLK)
    /\ calls # <<>>
    /\ Drawable(GetElement(calls[1].path))

\* after is list with the contents of one canvas named name replaced by the
\* single object obj drawn with options opt, everything else as it was.
DrawnOn(list, after, name, obj, opt) ==
    \E i \in DOMAIN list :
        /\ list[i].name = name
        /\ Len(after) = Len(list)
        /\ \A j \in DOMAIN list : j # i => after[j] = list[j]
        /\ after[i].name = list[i].name
        /\ after[i].win = list[i].win
        /\ Len(after[i].prims) = 1
        /\ after[i].prims[1].obj = obj
        /\ after[i].prims[1].opt = opt

\* C15: a DBLCLK that resolves to an element without text content giving a
\* drawable object, the active-canvas name matching an existing canvas,
\* leaves that canvas holding exactly the newly drawn object, every other
\* canvas unchanged, and is answered with SLCTCANV: and the active name.
C15_DrawReplacesContents ==
    [][ (/\ ResolvedDrawable'
         /\ HasName(fCanvases, fActiveCanvas) \/ HasName(fRCanvases, fActiveCanvas))
        => /\ \/ /\ DrawnOn(fCanvases, fCanvases', fActiveCanvas,
                            GetElement(calls'[1].path).obj, calls'[1].opts)
                 /\ fRCanvases' = fRCanvases
              \/ /\ DrawnOn(fRCanvases, fRCanvases', fActiveCanvas,
                            GetElement(calls'[1].path).obj, calls'[1].opts)
                 /\ fCanvases' = fCanvases
           /\ \E c \in Range(conns) :
                 sent' = <<Msg(c, S_SLCTCANV \o fActiveCanvas)>>
           /\ fActiveCanvas' = fActiveCanvas ]_vars

\* With three canvases open, h1 was drawn with option "o" on the second, the
\* active one, while the first holds what was drawn on it before.
C15_Witness ==
    /\ ResolvedDrawable
    /\ calls[1].opts = <<"o">>
    /\ LET list == fCanvases \o fRCanvases
       IN  /\ Len(list) = 3
           /\ list[2].name = fActiveCanvas
           /\ list[1].name # fActiveCanvas
           /\ Len(list[2].prims) = 1
           /\ list[2].prims[1].obj = "h1"
           /\ list[2].prims[1].opt = <<"o">>
           /\ Len(list[1].prims) = 1
           /\ list[1].prims[1].obj = "gr"
    /\ \E c \in Range(conns) : sent = <<Msg(c, S_SLCTCANV \o fActiveCanvas)>>

\* C16: whatever a DBLCLK draws on the active canvas, legacy or
\* next-generation, the canvas holds a clone of the tree's object, detached
\* from any external container, never the object instance the tree gave.
C16_CanvasHoldsDetachedClone ==
    ResolvedDrawable =>
        \A list \in {fCanvases, fRCanvases} :
            \A i \in DOMAIN list :
                \A k \in DOMAIN list[i].prims :
                    /\ list[i].prims[k].clone
                    /\ ~list[i].prims[k].attached

\* C17: a DBLCLK that resolves to a drawable object while the active-canvas
\* name is empty or carried by no canvas of either list does nothing: no
\* canvas changes, none is created, no reply with a text is sent and the
\* active-canvas name stays.
C17_NoActiveCanvasNoOp ==
    [][ (/\ ResolvedDrawable'
         /\ ~HasName(fCanvases, fActiveCanvas)
         /\ ~HasName(fRCanvases, fActiveCanvas))
        => /\ NoReply'
           /\ Len(sent') <= 1
           /\ outcome' = "ok"
           /\ UNCHANGED <<fCanvases, fRCanvases, fActiveCanvas, winCnt>> ]_vars

\* gr was double-clicked with two canvases open and an active-canvas name
\* that no canvas carries; nothing was drawn and no text was sent.
C17_Witness ==
    /\ ResolvedDrawable
    /\ calls[1].path = <<"/","g">>
    /\ fActiveCanvas # <<>>
    /\ ~HasName(fCanvases, fActiveCanvas)
    /\ ~HasName(fRCanvases, fActiveCanvas)
    /\ Len(fCanvases) + Len(fRCanvases) = 2
    /\ \A i \in DOMAIN fCanvases : fCanvases[i].prims = <<>>
    /\ \A i \in DOMAIN fRCanvases : fRCanvases[i].prims = <<>>
    /\ NoReply

\* The step handled NEWCANVAS (primed: the state after the step).
HandledNewCanvas == op.name = "WebWindowCallback" /\ arg = S_NEWCANVAS

\* C18: a name that was given to a canvas closed since is never given to a
\* canvas created later.
C18_ClosedNamesNotReused ==
    [][ HandledNewCanvas'
        => \A list \in {fCanvases', fRCanvases'} :
              \A i \in DOMAIN list :
                 (list[i].win = winCnt' /\ winCnt' # winCnt)
                    => list[i].name \notin {c.name : c \in closed} ]_vars

\* after is list with one new, empty canvas of the given name at its end.
Appended(list, after, name) ==
    /\ Len(after) = Len(list) + 1
    /\ SubSeq(after, 1, Len(list)) = list
    /\ after[Len(after)].name = name
    /\ after[Len(after)].prims = <<>>

\* C19: NEWCANVAS adds exactly one canvas to the list of the session mode's
\* kind, named webcanvN or rcanvN with N that list's length before plus one,
\* leaves the other list unchanged, makes the new name the active-canvas
\* name and is answered with one CANVS: message of its (kind, url, name).
C19_NewCanvasAddsOne ==
    [][ HandledNewCanvas'
        => LET name == IF fUseRCanvas
                       THEN S_rcanv \o IntToString(Len(fRCanvases) + 1)
                       ELSE S_webcanv \o IntToString(Len(fCanvases) + 1)
               kind == IF fUseRCanvas THEN S_root7 ELSE S_root6
           IN  /\ IF fUseRCanvas
                  THEN Appended(fRCanvases, fRCanvases', name)
                       /\ fCanvases' = fCanvases
                  ELSE Appended(fCanvases, fCanvases', name)
                       /\ fRCanvases' = fRCanvases
               /\ fActiveCanvas' = name
               /\ \E c \in Range(conns) :
                     sent' = <<Msg(c, S_CANVS \o ToJSONStrings(
                                  <<kind, WindowUrl(winCnt'), name>>))>>
               /\ winCnt' = winCnt + 1 ]_vars

\* NEWCANVAS created the third next-generation canvas, rcanv3, now active.
C19_Witness ==
    /\ HandledNewCanvas
    /\ fUseRCanvas
    /\ Len(fRCanvases) = 3
    /\ fRCanvases[3].name = S_rcanv \o <<"3">>
    /\ fRCanvases[3].win = winCnt
    /\ fActiveCanvas = S_rcanv \o <<"3">>
    /\ fCanvases = <<>>

\* The canvases a list registers (what they hold left aside).
Registry(list) ==
    [i \in DOMAIN list |-> [name |-> list[i].name, win |-> list[i].win]]

\* C20: the working directory changes only on CHDIR:, the canvas registries
\* only on NEWCANVAS and CLOSE_CANVAS:, the active-canvas name only on
\* NEWCANVAS, SELECT_CANVAS: (which sets it to the given name, whether or not
\* a canvas carries it) and CLOSE_CANVAS:; BRREQ:, DBLCLK:, RUNMACRO:,
\* SAVEFILE: and GETWORKDIR: change none of the three.
C20_StateChangesOnlyOnItsCommands ==
    [][ /\ (fWorkingDirectory' # fWorkingDirectory) => Handled(S_CHDIR)'
        /\ (\/ Registry(fCanvases') # Registry(fCanvases)
            \/ Registry(fRCanvases') # Registry(fRCanvases))
              => (HandledNewCanvas' \/ Handled(S_CLOSE_CANVAS)')
        /\ (fActiveCanvas' # fActiveCanvas)
              => \/ HandledNewCanvas'
                 \/ Handled(S_SELECT_CANVAS)'
                 \/ Handled(S_CLOSE_CANVAS)'
        /\ Handled(S_SELECT_CANVAS)' => fActiveCanvas' = Substr(arg', 14)
        /\ (\E lit \in {S_BRREQ, S_DBLCLK, S_RUNMACRO, S_SAVEFILE, S_GETWORKDIR} :
               op'.name = "WebWindowCallback" /\ StartsWith(arg', lit))
              => /\ fWorkingDirectory' = fWorkingDirectory
                 /\ fActiveCanvas' = fActiveCanvas
                 /\ Registry(fCanvases') = Registry(fCanvases)
                 /\ Registry(fRCanvases') = Registry(fRCanvases) ]_vars

\* SELECT_CANVAS: made active a name that no canvas carries, after a
\* DBLCLK drew on a canvas and the working directory was changed.
C20_Witness ==
    /\ Handled(S_SELECT_CANVAS)
    /\ fActiveCanvas = Substr(arg, 14)
    /\ fActiveCanvas # <<>>
    /\ ~HasName(fCanvases, fActiveCanvas)
    /\ ~HasName(fRCanvases, fActiveCanvas)
    /\ \E i \in DOMAIN fCanvases : fCanvases[i].prims # <<>>
    /\ fWorkingDirectory = <<"/","v">>
    /\ files # <<>>

====
